---- MODULE Spec2Model ----
(***************************************************************************)
(* WeatherApp/weather_fetcher.py: a city name is read, geocoded, the       *)
(* current weather is fetched and decoded, and one row is appended to      *)
(* weather_log.csv.  The module models main(), geocode_city(),             *)
(* fetch_weather(), decode_weather_code() and save_to_csv().               *)
(*                                                                         *)
(* Text is a sequence of tokens.  The city text typed by the user is a     *)
(* sequence of single characters; a CSV field is a sequence whose tokens   *)
(* are either one of the characters the csv module treats specially        *)
(* (comma, double quote) or a run of ordinary characters.                  *)
(***************************************************************************)
EXTENDS Integers, Sequences, FiniteSets, TLC

\* ------------------------------------------------------------------ bounds
MaxArgs == 2          \* command-line words after the program name
MaxWordLen == 1       \* characters in one command-line word
MaxTypedLen == 2      \* characters typed at the prompt
CodeBound == 100      \* decode_weather_code is applied to -CodeBound..CodeBound
MaxCalls == 3         \* sequential save_to_csv calls

\* ----------------------------------------------------------- Python values
None == [t |-> "none"]
PyInt(n) == [t |-> "int", n |-> n]
PyStr(s) == [t |-> "str", s |-> s]

RECURSIVE SeqsUpTo(_, _)
\* all sequences over S of length at most n
SeqsUpTo(S, n) ==
  IF n = 0 THEN {<<>>}
  ELSE LET shorter == SeqsUpTo(S, n - 1)
       IN  shorter \cup {Append(s, c) : s \in shorter, c \in S}

\* ------------------------------------------------------- input (main 112-115)
Chars == {"a", " "}
Words == SeqsUpTo(Chars, MaxWordLen)
\* sys.argv[1:]
Argvs == SeqsUpTo(Words, MaxArgs)
\* what input() returns
TypedTexts == SeqsUpTo(Chars, MaxTypedLen)

IsSpace(c) == c = " "

RECURSIVE lstrip(_)
lstrip(s) == IF s # <<>> /\ IsSpace(Head(s)) THEN lstrip(Tail(s)) ELSE s

RECURSIVE rstrip(_)
rstrip(s) ==
  IF s # <<>> /\ IsSpace(s[Len(s)]) THEN rstrip(SubSeq(s, 1, Len(s) - 1)) ELSE s

\* str.strip()
strip(s) == rstrip(lstrip(s))

RECURSIVE join(_)
\* " ".join(words)
join(words) ==
  IF words = <<>> THEN <<>>
  ELSE IF Len(words) = 1 THEN words[1]
  ELSE words[1] \o <<" ">> \o join(Tail(words))

\* line 115: input(...).strip()
ReadTyped(typed) == strip(typed)

\* line 113: " ".join(sys.argv[1:])
ReadArgv(args) == join(args)

\* lines 112-115
ReadCity(args, typed) ==
  IF Len(args) > 0 THEN ReadArgv(args) ELSE ReadTyped(typed)

\* line 117: "if not city"
CityMissing(city) == city = <<>>

\* ------------------------------------- decode_weather_code (lines 55-83)
mapping ==
  (0 :> "Clear sky") @@ (1 :> "Mainly clear") @@ (2 :> "Partly cloudy") @@
  (3 :> "Overcast") @@ (45 :> "Fog") @@ (48 :> "Depositing rime fog") @@
  (51 :> "Light drizzle") @@ (53 :> "Moderate drizzle") @@
  (55 :> "Dense drizzle") @@ (61 :> "Slight rain") @@
  (63 :> "Moderate rain") @@ (65 :> "Heavy rain") @@ (71 :> "Slight snow") @@
  (73 :> "Moderate snow") @@ (75 :> "Heavy snow") @@
  (80 :> "Rain showers (slight)") @@ (81 :> "Rain showers (moderate)") @@
  (82 :> "Rain showers (violent)") @@ (95 :> "Thunderstorm") @@
  (96 :> "Thunderstorm with slight hail") @@
  (99 :> "Thunderstorm with heavy hail")

\* str(code) as the f-string of line 83 renders it
FormatCode(code) == IF code.t = "int" THEN ToString(code.n) ELSE code.s

\* a call either returns a string or raises
Returned(v) == [exc |-> "none", val |-> v]
Raised(e) == [exc |-> e, val |-> ""]

\* line 83 with the fallback losing the code
decode_weather_code_nocode(code) ==
  IF code.t = "int"
  THEN Returned(IF code.n \in DOMAIN mapping THEN mapping[code.n] ELSE "Unknown")
  ELSE Raised("ValueError")

\* line 83: mapping.get(int(code), f"Unknown ({code})"); int() of a string
\* that is not a number raises ValueError
decode_weather_code(code) ==
  IF code.t = "int"
  THEN Returned(IF code.n \in DOMAIN mapping
                THEN mapping[code.n]
                ELSE "Unknown (" \o FormatCode(code) \o ")")
  ELSE Raised("ValueError")

\* line 134 with a truthiness test instead of "is not None"
CodePresentTruthy(code) == code # None /\ code # PyInt(0)

\* line 134: "code is not None"
CodePresent(code) == code # None

\* ------------------------------------------------- csv rows (lines 92-107)
fieldnames ==
  << "timestamp_local", "city", "lat", "lon", "temperature_c",
     "humidity_pct", "wind_kmh", "condition" >>

Comma == ","
Quote == "\""
\* a lone surrogate, which json.loads accepts and UTF-8 cannot encode
Surrogate == "\\udc80"

\* the csv writer's text for one value: None is written as the empty string
Cell(v) ==
  IF v = None THEN <<>>
  ELSE IF v.t = "int" THEN <<ToString(v.n)>>
  ELSE v.s

\* QUOTE_MINIMAL: a field is quoted when it holds the delimiter or the quote
NeedsQuote(f) == \E i \in 1..Len(f) : f[i] \in {Comma, Quote}

RECURSIVE DoubleQuotes(_)
DoubleQuotes(f) ==
  IF f = <<>> THEN <<>>
  ELSE (IF Head(f) = Quote THEN <<Quote, Quote>> ELSE <<Head(f)>>)
       \o DoubleQuotes(Tail(f))

\* a writer that never quotes
CsvFieldRaw(f) == f

CsvField(f) ==
  IF NeedsQuote(f) THEN <<Quote>> \o DoubleQuotes(f) \o <<Quote>> ELSE f

RECURSIVE CsvJoin(_)
CsvJoin(fields) ==
  IF fields = <<>> THEN <<>>
  ELSE IF Len(fields) = 1 THEN CsvField(fields[1])
  ELSE CsvField(fields[1]) \o <<Comma>> \o CsvJoin(Tail(fields))

\* DictWriter.writeheader(): the field names as one line
HeaderLine == CsvJoin([i \in 1..Len(fieldnames) |-> <<fieldnames[i]>>])

\* DictWriter.writerow(row): the values in fieldnames order as one line
RowLine(row) == CsvJoin([i \in 1..Len(fieldnames) |-> Cell(row[fieldnames[i]])])

\* the text stream encodes what is written as UTF-8 (line 91)
Encodable(line) == \A i \in 1..Len(line) : line[i] # Surrogate

\* f"{x:.4f}" for x given in units of 1/100000
Pad4(n) ==
  IF n < 10 THEN "000" \o ToString(n)
  ELSE IF n < 100 THEN "00" \o ToString(n)
  ELSE IF n < 1000 THEN "0" \o ToString(n)
  ELSE ToString(n)

Fmt4(x) ==
  LET a == IF x < 0 THEN 0 - x ELSE x
      q == (a + 5) \div 10
  IN  (IF x < 0 THEN "-" ELSE "") \o ToString(q \div 10000) \o "."
      \o Pad4(q % 10000)

\* ------------------------------------------- exceptions (lines 161-169)
\* the base class of each exception class the program can meet;
\* requests.exceptions derive from RequestException, itself an IOError
Parent ==
  [ HTTPError |-> "RequestException", ConnectionError |-> "RequestException",
    Timeout |-> "RequestException", JSONDecodeError |-> "RequestException",
    RequestException |-> "OSError", OSError |-> "Exception",
    UnicodeEncodeError |-> "ValueError", ValueError |-> "Exception",
    KeyError |-> "Exception", AttributeError |-> "Exception",
    Exception |-> "BaseException" ]

RECURSIVE IsInstance(_, _)
IsInstance(e, cls) ==
  \/ e = cls
  \/ e \in DOMAIN Parent /\ IsInstance(Parent[e], cls)

Escaped == 99   \* no except clause matched: the exception leaves main()

\* the except clauses with the log write's IOError counted as a network error
ExitCodeForIO(e) ==
  IF IsInstance(e, "HTTPError") THEN 3
  ELSE IF IsInstance(e, "OSError") THEN 4
  ELSE IF IsInstance(e, "Exception") THEN 5
  ELSE Escaped

\* lines 161-169: the first matching except clause decides
ExitCodeFor(e) ==
  IF IsInstance(e, "HTTPError") THEN 3
  ELSE IF IsInstance(e, "RequestException") THEN 4
  ELSE IF IsInstance(e, "Exception") THEN 5
  ELSE Escaped

\* ---------------------------------------------------- the two services
\* Response.raise_for_status() raises HTTPError for 4xx and 5xx
RaisesForStatus(status) == status >= 400 /\ status < 600

\* what Response.json() raises on a body that is not JSON: requests' own
\* JSONDecodeError (a RequestException) or, in older releases, ValueError
JsonErrors == {"JSONDecodeError", "ValueError"}

NetOutcomes == {"ok", "ConnectionError", "Timeout"}

NameVals == {None, PyStr(<<"Mumbai">>), PyStr(<<Quote, "St", Quote, Comma, "Ives">>),
             PyStr(<<Surrogate>>)}
CountryVals == {None, PyStr(<<"India">>)}
LatVals == {None, PyInt(5150853)}
LonVals == {PyInt(0 - 12574)}

GeoRecords ==
  [name : NameVals, country : CountryVals, latitude : LatVals, longitude : LonVals]
NoGeoRecord == [name |-> None, country |-> None, latitude |-> None,
                longitude |-> PyInt(0 - 12574)]

GeoBodies ==
  {[json |-> FALSE, kind |-> "dict", results |-> "missing", r |-> NoGeoRecord],
   [json |-> TRUE, kind |-> "list", results |-> "missing", r |-> NoGeoRecord]}
  \cup {[json |-> TRUE, kind |-> "dict", results |-> k, r |-> NoGeoRecord] :
          k \in {"missing", "null", "empty"}}
  \cup {[json |-> TRUE, kind |-> "dict", results |-> "one", r |-> r] :
          r \in GeoRecords}
NoGeoBody == [json |-> FALSE, kind |-> "dict", results |-> "missing", r |-> NoGeoRecord]

\* every answer the geocoding endpoint can give to requests.get
GeoResponses ==
  {[net |-> n, status |-> 0, body |-> NoGeoBody] : n \in NetOutcomes \ {"ok"}}
  \cup {[net |-> "ok", status |-> s, body |-> NoGeoBody] : s \in {404, 500}}
  \cup {[net |-> "ok", status |-> s, body |-> b] : s \in {200}, b \in GeoBodies}

NotFound == [found |-> FALSE, lat |-> 0, lon |-> 0, resolved |-> <<>>]

\* r.get(key, '?')
GetOr(v, default) == IF v = None THEN default ELSE v.s

\* line 32-33 taking only an empty list for "no results"
ResultsEmptyStrict(results) == results = "empty"

\* lines 32-33: results = data.get("results") or []; if not results
ResultsEmpty(results) == results \in {"missing", "null", "empty"}

\* line 36
ResolvedName(r) == GetOr(r.name, <<"?">>) \o <<Comma, " ">> \o GetOr(r.country, <<"?">>)

Got(v) == [exc |-> "none", val |-> v]
Threw(e) == [exc |-> e, val |-> NotFound]

\* lines 29-37, given the endpoint's answer
geocode_city(resp, jexc) ==
  IF resp.net # "ok" THEN Threw(resp.net)
  ELSE IF RaisesForStatus(resp.status) THEN Threw("HTTPError")
  ELSE IF ~resp.body.json THEN Threw(jexc)
  ELSE IF resp.body.kind # "dict" THEN Threw("AttributeError")
  ELSE IF ResultsEmpty(resp.body.results) THEN Got(NotFound)
  ELSE LET r == resp.body.r
       IN  IF r.latitude = None THEN Threw("KeyError")
           ELSE Got([found |-> TRUE, lat |-> r.latitude.n,
                     lon |-> r.longitude.n, resolved |-> ResolvedName(r)])

TempVals == {None, PyInt(31)}
CodeVals == {None, PyInt(0), PyInt(2), PyInt(100), PyInt(-1), PyStr("abc")}

NoCurrent == [temperature_2m |-> None, relative_humidity_2m |-> None,
              wind_speed_10m |-> None, weather_code |-> None]
Currents ==
  [temperature_2m : TempVals, relative_humidity_2m : {PyInt(74)},
   wind_speed_10m : {PyInt(12)}, weather_code : CodeVals]

WxBodies ==
  {[json |-> FALSE, kind |-> "dict", current |-> "missing", cur |-> NoCurrent],
   [json |-> TRUE, kind |-> "list", current |-> "missing", cur |-> NoCurrent],
   [json |-> TRUE, kind |-> "dict", current |-> "missing", cur |-> NoCurrent]}
  \cup {[json |-> TRUE, kind |-> "dict", current |-> "present", cur |-> c] :
          c \in Currents}
NoWxBody == [json |-> FALSE, kind |-> "dict", current |-> "missing", cur |-> NoCurrent]

WxResponses ==
  {[net |-> n, status |-> 0, body |-> NoWxBody] : n \in NetOutcomes \ {"ok"}}
  \cup {[net |-> "ok", status |-> s, body |-> NoWxBody] : s \in {404, 500}}
  \cup {[net |-> "ok", status |-> s, body |-> b] : s \in {200}, b \in WxBodies}

GotW(b) == [exc |-> "none", val |-> b]
ThrewW(e) == [exc |-> e, val |-> NoWxBody]

\* lines 44-52, given the endpoint's answer
fetch_weather(resp, jexc) ==
  IF resp.net # "ok" THEN ThrewW(resp.net)
  ELSE IF RaisesForStatus(resp.status) THEN ThrewW("HTTPError")
  ELSE IF ~resp.body.json THEN ThrewW(jexc)
  ELSE GotW(resp.body)

\* line 129: w.get("current", {})
CurrentOf(w) == IF w.current = "present" THEN w.cur ELSE NoCurrent

\* ------------------------------------------------------------------ state
Writers == {1, 2}     \* callers of save_to_csv; main() is writer 1

VARIABLES
  pc,          \* main(): the step about to run
  args,        \* sys.argv[1:]
  typed,       \* the line input() returns
  city,        \* main's local "city"
  geoResp,     \* the geocoding endpoint's answer
  g,           \* main's local "g"
  w,           \* main's local "w"
  cur,         \* main's local "cur"
  condition,   \* main's local "condition"
  shown,       \* the "Condition:" line printed
  exitCode,    \* what main() returned; NotExited while it runs
  failure,     \* the exception class the except clauses received
  failStep,    \* the step that raised it
  failNet,     \* "no_response", or the HTTP status of the failing call as text
  geoCalls,    \* requests.get(GEO_URL) calls made
  wxCalls,     \* requests.get(WEATHER_URL) calls made
  saveCalls,   \* save_to_csv calls made by main
  decodeCalls, \* decode_weather_code calls made by main
  file,        \* weather_log.csv
  fileAtStart, \* weather_log.csv when the run or the first call started
  wpc,         \* save_to_csv: per caller, the step about to run
  new_file,    \* save_to_csv's local "new_file"
  buf,         \* lines written to the open stream and not yet flushed
  wrow,        \* save_to_csv's argument "row"
  wexc,        \* the exception a save_to_csv call raised
  appended,    \* the rows of the calls that returned, in order
  nCalls,      \* save_to_csv calls started
  nFailed,     \* save_to_csv calls that raised
  dcode,       \* decode_weather_code's argument in a direct call
  dres,        \* what that call returned
  dres2        \* what a repeated call with the same argument returned

mainVars ==
  << pc, args, typed, city, geoResp, g, w, cur, condition, shown, exitCode,
     failure, failStep, failNet, geoCalls, wxCalls, saveCalls, decodeCalls >>
writerVars == << wpc, new_file, buf, wrow, wexc, appended, nCalls, nFailed >>
decodeVars == << dcode, dres, dres2 >>
vars == << mainVars, file, fileAtStart, writerVars, decodeVars >>

NotExited == 0 - 1

NoFile == [exists |-> FALSE, lines |-> <<>>]
NoRow == [f \in {fieldnames[i] : i \in 1..Len(fieldnames)} |-> None]
NotCalled == [exc |-> "not called", val |-> ""]

\* strftime("%Y-%m-%d %H:%M:%S") of the local clock (line 145)
now_local == <<"2026-01-01 12:00:00">>

\* lines 147-156: the record main() passes to save_to_csv
LogRecord(loc, c, cond) ==
  [ timestamp_local |-> PyStr(now_local),
    city |-> PyStr(loc.resolved),
    lat |-> PyStr(<<Fmt4(loc.lat)>>),
    lon |-> PyStr(<<Fmt4(loc.lon)>>),
    temperature_c |-> c.temperature_2m,
    humidity_pct |-> c.relative_humidity_2m,
    wind_kmh |-> c.wind_speed_10m,
    condition |-> PyStr(<<cond>>) ]

OldLocation == [found |-> TRUE, lat |-> 5150853, lon |-> -12574, resolved |-> <<"London", Comma, " ", "United Kingdom">>]
OldCurrent == [temperature_2m |-> PyInt(9), relative_humidity_2m |-> PyInt(80),
               wind_speed_10m |-> PyInt(20), weather_code |-> PyInt(3)]
\* a row an earlier run left in the log
OldRow == RowLine(LogRecord(OldLocation, OldCurrent, "Overcast"))

\* the log before anything runs: absent, empty, or holding an earlier run
InitFiles ==
  {NoFile, [exists |-> TRUE, lines |-> <<>>],
   [exists |-> TRUE, lines |-> <<HeaderLine, OldRow>>]}

InitWriters ==
  /\ wpc = [x \in Writers |-> "idle"]
  /\ new_file = [x \in Writers |-> FALSE]
  /\ buf = [x \in Writers |-> <<>>]
  /\ wrow = [x \in Writers |-> NoRow]
  /\ wexc = [x \in Writers |-> "none"]
  /\ appended = <<>>
  /\ nCalls = 0
  /\ nFailed = 0

InitDecodeIdle == dcode = PyInt(0) /\ dres = NotCalled /\ dres2 = NotCalled

InitMainIdle ==
  /\ pc = "off"
  /\ args = <<>> /\ typed = <<>> /\ city = <<>>
  /\ geoResp = [net |-> "none", status |-> 0, body |-> NoGeoBody]
  /\ g = NotFound /\ w = NoWxBody /\ cur = NoCurrent
  /\ condition = "" /\ shown = ""
  /\ exitCode = NotExited
  /\ failure = "none" /\ failStep = "none" /\ failNet = "none"
  /\ geoCalls = 0 /\ wxCalls = 0 /\ saveCalls = 0 /\ decodeCalls = 0

\* ----------------------------------------------------- save_to_csv steps
\* line 90 reading the flag the wrong way round
NewFileInverted(exists) == exists

\* line 90: new_file = not path.exists()
NewFile(exists) == ~exists

\* line 105 writing the header on every call
NeedsHeaderAlways(nf) == TRUE

\* line 105: if new_file
NeedsHeader(nf) == nf

\* entering save_to_csv(row)
Call(x, row) ==
  /\ wpc' = [wpc EXCEPT ![x] = "exists"]
  /\ wrow' = [wrow EXCEPT ![x] = row]
  /\ buf' = [buf EXCEPT ![x] = <<>>]
  /\ wexc' = [wexc EXCEPT ![x] = "none"]
  /\ new_file' = [new_file EXCEPT ![x] = FALSE]
  /\ nCalls' = nCalls + 1
  /\ UNCHANGED << appended, nFailed >>

WriterRaise(x, e) ==
  /\ wpc' = [wpc EXCEPT ![x] = "failed"]
  /\ wexc' = [wexc EXCEPT ![x] = e]
  /\ nFailed' = nFailed + 1

\* line 90
PathExists(x) ==
  /\ wpc[x] = "exists"
  /\ new_file' = [new_file EXCEPT ![x] = NewFile(file.exists)]
  /\ wpc' = [wpc EXCEPT ![x] = "open"]
  /\ UNCHANGED << mainVars, decodeVars, file, fileAtStart, buf, wrow, wexc,
                  appended, nCalls, nFailed >>

\* line 91: path.open("a") creates the file when it is missing
PathOpen(x) ==
  /\ wpc[x] = "open"
  /\ file' = [file EXCEPT !.exists = TRUE]
  /\ wpc' = [wpc EXCEPT ![x] = "header"]
  /\ UNCHANGED << mainVars, decodeVars, fileAtStart, new_file, buf, wrow, wexc,
                  appended, nCalls, nFailed >>

\* line 91: the open is refused (permissions, a directory in the way, ...)
PathOpenFails(x) ==
  /\ wpc[x] = "open"
  /\ WriterRaise(x, "OSError")
  /\ UNCHANGED << mainVars, decodeVars, file, fileAtStart, new_file, buf, wrow,
                  appended, nCalls >>

\* lines 105-106
WriteHeader(x) ==
  /\ wpc[x] = "header"
  /\ buf' = [buf EXCEPT ![x] =
               IF NeedsHeader(new_file[x]) THEN Append(@, HeaderLine) ELSE @]
  /\ wpc' = [wpc EXCEPT ![x] = "row"]
  /\ UNCHANGED << mainVars, decodeVars, file, fileAtStart, new_file, wrow, wexc,
                  appended, nCalls, nFailed >>

\* line 107
WriteRow(x) ==
  /\ wpc[x] = "row"
  /\ Encodable(RowLine(wrow[x]))
  /\ buf' = [buf EXCEPT ![x] = Append(@, RowLine(wrow[x]))]
  /\ wpc' = [wpc EXCEPT ![x] = "close"]
  /\ UNCHANGED << mainVars, decodeVars, file, fileAtStart, new_file, wrow, wexc,
                  appended, nCalls, nFailed >>

\* line 107 on text UTF-8 cannot encode: the write raises, and leaving the
\* with block closes the stream, which flushes what was written before
WriteRowFails(x) ==
  /\ wpc[x] = "row"
  /\ ~Encodable(RowLine(wrow[x]))
  /\ file' = [file EXCEPT !.lines = @ \o buf[x]]
  /\ buf' = [buf EXCEPT ![x] = <<>>]
  /\ WriterRaise(x, "UnicodeEncodeError")
  /\ UNCHANGED << mainVars, decodeVars, fileAtStart, new_file, wrow, appended,
                  nCalls >>

\* end of the with block: the stream is flushed and closed
Close(x) ==
  /\ wpc[x] = "close"
  /\ file' = [file EXCEPT !.lines = @ \o buf[x]]
  /\ buf' = [buf EXCEPT ![x] = <<>>]
  /\ wpc' = [wpc EXCEPT ![x] = "done"]
  /\ appended' = Append(appended, wrow[x])
  /\ UNCHANGED << mainVars, decodeVars, fileAtStart, new_file, wrow, wexc,
                  nCalls, nFailed >>

\* end of the with block: the flush fails (disk full, I/O error) after any
\* part of the buffered lines reached the file
CloseFails(x) ==
  /\ wpc[x] = "close"
  /\ \E k \in 0..Len(buf[x]) :
       file' = [file EXCEPT !.lines = @ \o SubSeq(buf[x], 1, k)]
  /\ buf' = [buf EXCEPT ![x] = <<>>]
  /\ WriterRaise(x, "OSError")
  /\ UNCHANGED << mainVars, decodeVars, fileAtStart, new_file, wrow, appended,
                  nCalls >>

save_to_csv(x) ==
  \/ PathExists(x)
  \/ PathOpen(x)
  \/ PathOpenFails(x)
  \/ WriteHeader(x)
  \/ WriteRow(x)
  \/ WriteRowFails(x)
  \/ Close(x)
  \/ CloseFails(x)

\* ------------------------------------------------------------------ main()
\* how the failing network call ended, for the record
NetClass(resp) ==
  IF resp.net # "ok" THEN "no_response"
  ELSE IF resp.status >= 200 /\ resp.status < 300 THEN "2xx"
  ELSE "non2xx"

\* an exception reaches the except clauses of lines 161-169
Fail(e, step, net) ==
  /\ exitCode' = ExitCodeFor(e)
  /\ failure' = e
  /\ failStep' = step
  /\ failNet' = net
  /\ pc' = "done"

Return(code) ==
  /\ exitCode' = code
  /\ pc' = "done"
  /\ UNCHANGED << failure, failStep, failNet >>

\* lines 112-115
Input ==
  /\ pc = "input"
  /\ city' = ReadCity(args, typed)
  /\ pc' = "validate"
  /\ UNCHANGED << args, typed, geoResp, g, w, cur, condition, shown, exitCode,
                  failure, failStep, failNet, geoCalls, wxCalls, saveCalls,
                  decodeCalls, file, fileAtStart, writerVars, decodeVars >>

\* lines 117-119
Validate ==
  /\ pc = "validate"
  /\ IF CityMissing(city)
     THEN Return(1)
     ELSE pc' = "geocode" /\ UNCHANGED << exitCode, failure, failStep, failNet >>
  /\ UNCHANGED << args, typed, city, geoResp, g, w, cur, condition, shown,
                  geoCalls, wxCalls, saveCalls, decodeCalls, file, fileAtStart,
                  writerVars, decodeVars >>

\* line 123 going on without a location
GeoFoundAlways(loc) == TRUE

\* line 123: "if not g" is taken exactly for None
GeoFound(loc) == loc.found

\* lines 122-127
Geocode ==
  /\ pc = "geocode"
  /\ \E resp \in GeoResponses, jexc \in JsonErrors :
       LET res == geocode_city(resp, jexc)
       IN  /\ geoResp' = resp
           /\ geoCalls' = geoCalls + 1
           /\ IF res.exc # "none"
              THEN Fail(res.exc, "geocode", NetClass(resp)) /\ UNCHANGED g
              ELSE IF ~GeoFound(res.val)
              THEN Return(2) /\ UNCHANGED g
              ELSE /\ g' = res.val
                   /\ pc' = "fetch"
                   /\ UNCHANGED << exitCode, failure, failStep, failNet >>
  /\ UNCHANGED << args, typed, city, w, cur, condition, shown, wxCalls,
                  saveCalls, decodeCalls, file, fileAtStart, writerVars,
                  decodeVars >>

\* line 128
Fetch ==
  /\ pc = "fetch"
  /\ \E resp \in WxResponses, jexc \in JsonErrors :
       LET res == fetch_weather(resp, jexc)
       IN  /\ wxCalls' = wxCalls + 1
           /\ IF res.exc # "none"
              THEN Fail(res.exc, "fetch", NetClass(resp)) /\ UNCHANGED w
              ELSE /\ w' = res.val
                   /\ pc' = "decode"
                   /\ UNCHANGED << exitCode, failure, failStep, failNet >>
  /\ UNCHANGED << args, typed, city, geoResp, g, cur, condition, shown,
                  geoCalls, saveCalls, decodeCalls, file, fileAtStart,
                  writerVars, decodeVars >>

\* lines 129-134
Decode ==
  /\ pc = "decode"
  /\ IF w.kind # "dict"
     THEN /\ Fail("AttributeError", "decode", "none")
          /\ UNCHANGED << cur, condition, decodeCalls >>
     ELSE LET c == CurrentOf(w)
              code == c.weather_code
          IN  /\ cur' = c
              /\ IF CodePresent(code)
                 THEN LET res == decode_weather_code(code)
                      IN  /\ decodeCalls' = decodeCalls + 1
                          /\ IF res.exc # "none"
                             THEN Fail(res.exc, "decode", "none")
                                  /\ UNCHANGED condition
                             ELSE /\ condition' = res.val
                                  /\ pc' = "display"
                                  /\ UNCHANGED << exitCode, failure, failStep,
                                                  failNet >>
                 ELSE /\ condition' = "Unknown"
                      /\ pc' = "display"
                      /\ UNCHANGED << exitCode, failure, failStep, failNet,
                                      decodeCalls >>
  /\ UNCHANGED << args, typed, city, geoResp, g, w, shown, geoCalls, wxCalls,
                  saveCalls, file, fileAtStart, writerVars, decodeVars >>

\* lines 137-141
Display ==
  /\ pc = "display"
  /\ shown' = condition
  /\ pc' = "persist"
  /\ UNCHANGED << args, typed, city, geoResp, g, w, cur, condition, exitCode,
                  failure, failStep, failNet, geoCalls, wxCalls, saveCalls,
                  decodeCalls, file, fileAtStart, writerVars, decodeVars >>

\* line 137 on a name the console's encoding rejects: whether print raises
\* depends on the error handler of sys.stdout
DisplayFails ==
  /\ pc = "display"
  /\ ~Encodable(g.resolved)
  /\ Fail("UnicodeEncodeError", "display", "none")
  /\ UNCHANGED << args, typed, city, geoResp, g, w, cur, condition, shown,
                  geoCalls, wxCalls, saveCalls, decodeCalls, file, fileAtStart,
                  writerVars, decodeVars >>

\* lines 144-157: main() calls save_to_csv
Persist ==
  /\ pc = "persist"
  /\ wpc[1] = "idle"
  /\ Call(1, LogRecord(g, cur, condition))
  /\ saveCalls' = saveCalls + 1
  /\ pc' = "saving"
  /\ UNCHANGED << args, typed, city, geoResp, g, w, cur, condition, shown,
                  exitCode, failure, failStep, failNet, geoCalls, wxCalls,
                  decodeCalls, file, fileAtStart, decodeVars >>

\* lines 158-159
PersistReturns ==
  /\ pc = "saving"
  /\ wpc[1] = "done"
  /\ Return(0)
  /\ UNCHANGED << args, typed, city, geoResp, g, w, cur, condition, shown,
                  geoCalls, wxCalls, saveCalls, decodeCalls, file, fileAtStart,
                  writerVars, decodeVars >>

\* save_to_csv raised: lines 161-169
PersistRaises ==
  /\ pc = "saving"
  /\ wpc[1] = "failed"
  /\ Fail(wexc[1], "persist", "none")
  /\ UNCHANGED << args, typed, city, geoResp, g, w, cur, condition, shown,
                  geoCalls, wxCalls, saveCalls, decodeCalls, file, fileAtStart,
                  writerVars, decodeVars >>

main ==
  \/ Input
  \/ Validate
  \/ Geocode
  \/ Fetch
  \/ Decode
  \/ Display
  \/ DisplayFails
  \/ Persist
  \/ PersistReturns
  \/ PersistRaises

\* one run of the program
Init ==
  /\ pc = "input"
  /\ args \in Argvs
  /\ typed \in (IF args = <<>> THEN TypedTexts ELSE {<<>>})
  /\ city = <<>>
  /\ geoResp = [net |-> "none", status |-> 0, body |-> NoGeoBody]
  /\ g = NotFound /\ w = NoWxBody /\ cur = NoCurrent
  /\ condition = "" /\ shown = ""
  /\ exitCode = NotExited
  /\ failure = "none" /\ failStep = "none" /\ failNet = "none"
  /\ geoCalls = 0 /\ wxCalls = 0 /\ saveCalls = 0 /\ decodeCalls = 0
  /\ file \in InitFiles
  /\ fileAtStart = file
  /\ InitWriters
  /\ InitDecodeIdle

Next == main \/ save_to_csv(1)

Spec == Init /\ [][Next]_vars

\* ------------------------------------ save_to_csv called N times in a row
CsvLocations ==
  {[found |-> TRUE, lat |-> 1907598, lon |-> 7287766, resolved |-> n] :
     n \in {<<"Mumbai", Comma, " ", "India">>, <<"Pune", Comma, " ", "India">>,
            <<Surrogate, Comma, " ", "?">>}}
CsvRows == {LogRecord(l, OldCurrent, "Overcast") : l \in CsvLocations}

\* the next call starts when the previous one has returned or raised
SeqCall ==
  /\ wpc[1] \in {"idle", "done", "failed"}
  /\ nCalls < MaxCalls
  /\ \E row \in CsvRows : Call(1, row)
  /\ UNCHANGED << mainVars, decodeVars, file, fileAtStart >>

InitCsv ==
  /\ InitMainIdle
  /\ InitDecodeIdle
  /\ InitWriters
  /\ file \in InitFiles
  /\ fileAtStart = file

NextCsv == SeqCall \/ save_to_csv(1)

SpecCsv == InitCsv /\ [][NextCsv]_vars

\* ------------------------------ two save_to_csv calls at the same time
ConcCall(x) ==
  /\ wpc[x] = "idle"
  /\ \E row \in CsvRows : Call(x, row)
  /\ UNCHANGED << mainVars, decodeVars, file, fileAtStart >>

NextRace == \E x \in Writers : ConcCall(x) \/ save_to_csv(x)

SpecRace == InitCsv /\ [][NextRace]_vars

\* --------------------------------- decode_weather_code called directly
Codes == (0 - CodeBound)..CodeBound

DecodeCall ==
  /\ \E n \in Codes :
       /\ dcode' = PyInt(n)
       /\ dres' = decode_weather_code(PyInt(n))
  /\ dres2' = NotCalled
  /\ UNCHANGED << mainVars, file, fileAtStart, writerVars >>

\* the same argument once more
DecodeAgain ==
  /\ dres # NotCalled
  /\ dres2' = decode_weather_code(dcode)
  /\ UNCHANGED << mainVars, file, fileAtStart, writerVars, dcode, dres >>

InitDecode ==
  /\ InitMainIdle
  /\ InitDecodeIdle
  /\ InitWriters
  /\ file = NoFile
  /\ fileAtStart = file

NextDecode == DecodeCall \/ DecodeAgain

SpecDecode == InitDecode /\ [][NextDecode]_vars

\* =================================================================== claims
\* the text as supplied, before main() touches it
RawText == IF Len(args) > 0 THEN join(args) ELSE typed
IsBlank(s) == \A i \in 1..Len(s) : s[i] = " "

RECURSIVE ParseFrom(_, _, _, _, _)
\* csv.reader over one line: i is the position, field the field being read,
\* quoted whether a quoted field is open, done the fields read so far
ParseFrom(line, i, field, quoted, done) ==
  IF i > Len(line) THEN Append(done, field)
  ELSE IF quoted
  THEN IF line[i] = Quote
       THEN IF i < Len(line) /\ line[i + 1] = Quote
            THEN ParseFrom(line, i + 2, Append(field, Quote), TRUE, done)
            ELSE ParseFrom(line, i + 1, field, FALSE, done)
       ELSE ParseFrom(line, i + 1, Append(field, line[i]), TRUE, done)
  ELSE IF line[i] = Comma
       THEN ParseFrom(line, i + 1, <<>>, FALSE, Append(done, field))
       ELSE IF line[i] = Quote /\ field = <<>>
       THEN ParseFrom(line, i + 1, field, TRUE, done)
       ELSE ParseFrom(line, i + 1, Append(field, line[i]), FALSE, done)

\* the fields a CSV reader finds in a line
ParseCsv(line) == ParseFrom(line, 1, <<>>, FALSE, <<>>)

HeaderCount(lines) == Cardinality({i \in 1..Len(lines) : lines[i] = HeaderLine})

TableKeys ==
  {0, 1, 2, 3, 45, 48, 51, 53, 55, 61, 63, 65, 71, 73, 75, 80, 81, 82, 95, 96, 99}

\* C1: whichever way the city text is supplied, blank text (empty or only
\* whitespace) ends main() with exit code 1 and neither the geocoding nor
\* the weather request is made.
C1_BlankInputExitsOne ==
  IsBlank(RawText) =>
    /\ geoCalls = 0
    /\ wxCalls = 0
    /\ pc = "done" => exitCode = 1

\* the geocoding endpoint answered with a JSON object whose result set is
\* empty or missing
NotFoundAnswer ==
  /\ geoCalls = 1
  /\ geoResp.net = "ok"
  /\ geoResp.status = 200
  /\ geoResp.body.json
  /\ geoResp.body.kind = "dict"
  /\ geoResp.body.results \in {"missing", "null", "empty"}

\* C2: when the geocoder's result set is empty or missing, main() ends with
\* exit code 2, no weather request is made and the log is as it was.
C2_NotFoundExitsTwo ==
  NotFoundAnswer =>
    /\ pc = "done"
    /\ exitCode = 2
    /\ wxCalls = 0
    /\ saveCalls = 0
    /\ file = fileAtStart

C2_Witness ==
  /\ NotFoundAnswer
  /\ geoResp.body.results = "missing"
  /\ exitCode = 2
  /\ fileAtStart.exists

\* C3: a failure's kind alone decides the exit code: a non-2xx status gives
\* 3, a transport failure gives 4, every other failure gives 5, and none
\* leaves main() uncaught.
C3_ExitCodeByFailureKind ==
  failure # "none" =>
    exitCode = (IF failNet = "non2xx" THEN 3
                ELSE IF failNet = "no_response" THEN 4
                ELSE 5)

LastLine == file.lines[Len(file.lines)]

\* C5: the line a successful run appends reads back as exactly 8 fields in
\* the header's column order, and its city field is
\* "<resolved place name>, <country>".
C5_EightFieldsInOrder ==
  exitCode = 0 =>
    LET fields == ParseCsv(LastLine)
        r == geoResp.body.r
    IN  /\ Len(fields) = 8
        /\ ParseCsv(HeaderLine) = [i \in 1..8 |-> <<fieldnames[i]>>]
        /\ \A i \in 1..8 : fields[i] = Cell(wrow[1][fieldnames[i]])
        /\ fields[1] = now_local
        /\ fields[2] = (IF r.name = None THEN <<"?">> ELSE r.name.s)
                       \o <<Comma, " ">>
                       \o (IF r.country = None THEN <<"?">> ELSE r.country.s)
        /\ fields[3] = <<Fmt4(r.latitude.n)>>
        /\ fields[4] = <<Fmt4(r.longitude.n)>>
        /\ fields[5] = Cell(cur.temperature_2m)
        /\ fields[6] = Cell(cur.relative_humidity_2m)
        /\ fields[7] = Cell(cur.wind_speed_10m)
        /\ fields[8] = <<condition>>

C5_Witness ==
  /\ exitCode = 0
  /\ geoResp.body.r.name = PyStr(<<Quote, "St", Quote, Comma, "Ives">>)
  /\ ParseCsv(LastLine)[4] = <<"-0.1257">>
  /\ cur.temperature_2m = None
  /\ Len(ParseCsv(LastLine)) = 8
  /\ Len(LastLine) > 15

\* C6: for every integer code decode_weather_code returns, without raising,
\* the table's phrase when the code is a table key and "Unknown (<code>)"
\* otherwise; a repeated call gives the same string.
C6_DecodeTotal ==
  /\ DOMAIN mapping = TableKeys
  /\ dres # NotCalled =>
       /\ dres.exc = "none"
       /\ dcode.n \in TableKeys => dres.val = mapping[dcode.n]
       /\ dcode.n \notin TableKeys =>
            dres.val = "Unknown (" \o ToString(dcode.n) \o ")"
       /\ dcode.n = 0 => dres.val = "Clear sky"
       /\ dcode.n = 2 => dres.val = "Partly cloudy"
       /\ dcode.n = 99 => dres.val = "Thunderstorm with heavy hail"
  /\ dres2 # NotCalled => dres2 = dres

C6_Witness ==
  /\ dcode.n = 0 - 1
  /\ dres.val = "Unknown (-1)"
  /\ dres2 = dres

\* main() has computed "condition"
Decoded == condition # ""

\* C7: with no weather code the decoder is not called and the condition is
\* "Unknown"; with a code outside the table it is "Unknown (<code>)", never
\* the same string; a code of 0 counts as present and gives "Clear sky".
\* The condition printed and the condition logged are that string.
C7_MissingVersusUnknownCode ==
  Decoded =>
    LET code == cur.weather_code
    IN  /\ code = None => condition = "Unknown" /\ decodeCalls = 0
        /\ code # None => decodeCalls = 1
        /\ (code # None /\ code.n \notin TableKeys) =>
             /\ condition = "Unknown (" \o ToString(code.n) \o ")"
             /\ condition # "Unknown"
        /\ code = PyInt(0) => condition = "Clear sky"
        /\ pc \in {"persist", "saving"} \/ exitCode = 0 => shown = condition
        /\ exitCode = 0 => ParseCsv(LastLine)[8] = <<condition>>

C7_Witness ==
  /\ exitCode = 0
  /\ cur.weather_code = None
  /\ w.current = "present"
  /\ shown = "Unknown"
  /\ decodeCalls = 0

AllReturned == \A x \in Writers : wpc[x] = "done"

\* C8: two concurrent save_to_csv calls on a missing file can both find it
\* missing before either opens it, and then the file holds two header
\* lines; it holds two exactly when both calls found it missing.
C8_BothSeeMissingBothWriteHeader ==
  (AllReturned /\ ~fileAtStart.exists) =>
    /\ HeaderCount(file.lines) \in {1, 2}
    /\ HeaderCount(file.lines) = 2 <=> (new_file[1] /\ new_file[2])
    /\ Len(file.lines) = 2 + HeaderCount(file.lines)

C8_Witness ==
  /\ AllReturned
  /\ ~fileAtStart.exists
  /\ new_file[1] /\ new_file[2]
  /\ HeaderCount(file.lines) = 2
  /\ Len(file.lines) = 4

\* C9: a run that ends with a nonzero exit code leaves the log exactly as it
\* was before the run.
C9_NonzeroExitLeavesLog ==
  (pc = "done" /\ exitCode # 0) => file = fileAtStart

IsPrefix(s, t) == Len(s) <= Len(t) /\ SubSeq(t, 1, Len(s)) = s

\* C9 as amended: a run that ends with 1, 2, 3 or 4, or with 5 from a
\* failure raised before save_to_csv was called, leaves the log exactly as
\* it was; only a failure inside save_to_csv (exit code 5) can leave the
\* file created or partly written, and what the log held stays in front.
C9_OnlySaveFailureTouchesLog ==
  /\ saveCalls = 0 => file = fileAtStart
  /\ (pc = "done" /\ exitCode \in {1, 2, 3, 4}) =>
       saveCalls = 0 /\ file = fileAtStart
  /\ (pc = "done" /\ exitCode # 0 /\ file # fileAtStart) =>
       exitCode = 5 /\ failStep = "persist"
  /\ IsPrefix(fileAtStart.lines, file.lines)

C9_Witness ==
  /\ pc = "done"
  /\ exitCode = 4
  /\ wxCalls = 1
  /\ fileAtStart.exists
  /\ file = fileAtStart

Calls == << geoCalls, wxCalls, saveCalls, nCalls >>

\* C10: the geocoding request, the weather request and the log append
\* happen in that order, each at most once: the weather request only after
\* a location came back, the append only after a payload came back, and
\* nothing is called once main() has returned.
C10_FixedOrderNoRetry ==
  /\ [](/\ geoCalls <= 1 /\ wxCalls <= 1 /\ saveCalls <= 1
        /\ nCalls = saveCalls
        /\ wxCalls = 1 => (geoCalls = 1 /\ g.found /\ geoResp.body.results = "one")
        /\ saveCalls = 1 => (wxCalls = 1 /\ w.json /\ w.kind = "dict")
        /\ (failure # "none" /\ failStep = "geocode") => wxCalls = 0
        /\ (failure # "none" /\ failStep # "persist") => saveCalls = 0)
  /\ [][pc = "done" => Calls' = Calls]_vars

C10_Witness ==
  /\ exitCode = 0
  /\ geoCalls = 1
  /\ wxCalls = 1
  /\ saveCalls = 1

====
